---------------------------- MODULE Spec2Model ----------------------------
(***************************************************************************)
(* Model of memu's record core: memu/database/models.py (content hash,     *)
(* ToolCallResult hashing, MemoryItem, scope composition) and              *)
(* memu/utils/tool.py (tool-call ledger accessors and statistics).         *)
(*                                                                         *)
(* Representation of Python values:                                        *)
(*   str    a sequence of one-character strings, "" is << >>               *)
(*   dict   a sequence of <<key, value>> pairs with distinct keys, in      *)
(*          insertion order                                                *)
(*   list   a sequence; a list that is shared by reference lives in heap   *)
(*          and is named by its address (an index of heap)                 *)
(*   Any    a tagged record [t |-> type name, v |-> payload]               *)
(*   float  time_cost and score are counted in thousandths, so that        *)
(*          round(x, 3) is a rounding to an integer                        *)
(***************************************************************************)
EXTENDS Integers, Sequences, FiniteSets, TLC

VARIABLES
    items,        \* the MemoryItem objects constructed so far, by index
    heap,         \* the list objects: heap[a] is the content of list a
    calls,        \* the ToolCallResult objects constructed so far, by index
    outcome,      \* the error the last operation raised, or "none"
    log,          \* history: log[i] = the entries add_tool_call appended to item i
    rebound,      \* history: TRUE once set_tool_calls was called by the caller
    held,         \* history: held[a] = the items for which the caller passed
                  \* list a to set_tool_calls or got it from get_tool_calls
    stats,        \* what the last get_tool_statistics returned
    hashes,       \* what generate_hash returned for each ToolCallResult
    content_in,   \* the (summary, memory_type) arguments of compute_content_hash
    content_out,  \* what compute_content_hash returned for each of them
    user_model,   \* the field names of the application's scope model
    scoped        \* what merge_scope_model / build_scoped_models returned

vars == <<items, heap, calls, outcome, log, rebound, held, stats, hashes,
          content_in, content_out, user_model, scoped>>

ledgerVars == <<items, heap, calls, log, rebound, held>>
hashVars == <<hashes>>
contentVars == <<content_in, content_out>>
scopeVars == <<user_model, scoped>>

-----------------------------------------------------------------------------
(* Bounds of the model.                                                    *)

MaxItems == 1
MaxLists == 1
MaxCalls == 2

-----------------------------------------------------------------------------
(* Python values.                                                          *)

Str(s) == [t |-> "str", v |-> s]
Num(n) == [t |-> "num", v |-> n]
Bool(b) == [t |-> "bool", v |-> IF b THEN 1 ELSE 0]
None == [t |-> "none", v |-> 0]
Dict(d) == [t |-> "dict", v |-> d]
Datetime == [t |-> "datetime", v |-> 0]

\* d.get(k, default)
DictGet(d, k, default) ==
    IF \E j \in 1..Len(d) : d[j][1] = k
    THEN d[CHOOSE j \in 1..Len(d) : d[j][1] = k][2]
    ELSE default

\* d[k] = v
DictSet(d, k, v) ==
    IF \E j \in 1..Len(d) : d[j][1] = k
    THEN [j \in 1..Len(d) |-> IF d[j][1] = k THEN <<k, v>> ELSE d[j]]
    ELSE Append(d, <<k, v>>)

\* bool(x) of a tagged value
Truthy(x) ==
    CASE x.t = "none" -> FALSE
      [] x.t = "str" -> Len(x.v) > 0
      [] x.t = "dict" -> Len(x.v) > 0
      [] OTHER -> x.v # 0

\* the digest of a string. md5 and sha256 are taken to be injective on the
\* string they are given; a hex digest is never the empty string.
Md5Hex(s) == <<"md5">> \o s

-----------------------------------------------------------------------------
(* Strings: code points, comparison, sorting.                              *)

CodeTable ==
    { <<"\t", 9>>, <<" ", 32>>, <<"\"", 34>>, <<"0", 48>>, <<"1", 49>>,
      <<"2", 50>>, <<":", 58>>, <<"A", 65>>, <<"B", 66>>, <<"\\", 92>>,
      <<"_", 95>>, <<"a", 97>>, <<"b", 98>>, <<"c", 99>>, <<"d", 100>>,
      <<"e", 101>>, <<"f", 102>>, <<"g", 103>>, <<"h", 104>>, <<"i", 105>>,
      <<"j", 106>>, <<"k", 107>>, <<"l", 108>>, <<"m", 109>>, <<"n", 110>>,
      <<"o", 111>>, <<"p", 112>>, <<"q", 113>>, <<"r", 114>>, <<"s", 115>>,
      <<"t", 116>>, <<"u", 117>>, <<"v", 118>>, <<"w", 119>>, <<"x", 120>>,
      <<"y", 121>>, <<"z", 122>>, <<"{", 123>>, <<"|", 124>>, <<"}", 125>> }

\* ord(c)
Ord(c) == (CHOOSE p \in CodeTable : p[1] = c)[2]

\* s1 < s2 for two str, as Python compares them: by code point, a proper
\* prefix first
RECURSIVE StrLess(_, _)
StrLess(s1, s2) ==
    IF s2 = << >> THEN FALSE
    ELSE IF s1 = << >> THEN TRUE
    ELSE IF Ord(Head(s1)) # Ord(Head(s2)) THEN Ord(Head(s1)) < Ord(Head(s2))
    ELSE StrLess(Tail(s1), Tail(s2))

\* sorted(S) for a set of str
RECURSIVE Sorted(_)
Sorted(S) ==
    IF S = {} THEN << >>
    ELSE LET least == CHOOSE x \in S : \A y \in S \ {x} : StrLess(x, y)
         IN <<least>> \o Sorted(S \ {least})

\* sep.join(parts)
RECURSIVE Join(_, _)
Join(sep, parts) ==
    IF parts = << >> THEN << >>
    ELSE IF Len(parts) = 1 THEN parts[1]
    ELSE parts[1] \o sep \o Join(sep, Tail(parts))

\* str(n) for an int
RECURSIVE IntStr(_)
IntStr(n) ==
    IF n < 0 THEN <<"-">> \o IntStr(0 - n)
    ELSE IF n < 10 THEN <<(CHOOSE p \in CodeTable : p[2] = 48 + n)[1]>>
    ELSE IntStr(n \div 10) \o IntStr(n % 10)

-----------------------------------------------------------------------------
(* json.dumps(obj, sort_keys=True) of a dict whose keys are str and whose  *)
(* values are str or int.                                                  *)

JsonEscapeChar(c) ==
    CASE c = "\"" -> <<"\\", "\"">>
      [] c = "\\" -> <<"\\", "\\">>
      [] c = "\t" -> <<"\\", "t">>
      [] OTHER -> <<c>>

RECURSIVE JsonEscape(_)
JsonEscape(s) ==
    IF s = << >> THEN << >> ELSE JsonEscapeChar(Head(s)) \o JsonEscape(Tail(s))

JsonValue(x) ==
    CASE x.t = "str" -> <<"\"">> \o JsonEscape(x.v) \o <<"\"">>
      [] x.t = "num" -> IntStr(x.v)
      [] x.t = "bool" -> IF x.v = 1 THEN <<"t", "r", "u", "e">>
                         ELSE <<"f", "a", "l", "s", "e">>
      [] OTHER -> <<"n", "u", "l", "l">>

JsonDumpsSorted(d) ==
    LET keys == Sorted({d[j][1] : j \in 1..Len(d)})
        member(k) == <<"\"">> \o JsonEscape(k) \o <<"\"", ":", " ">>
                     \o JsonValue(DictGet(d, k, None))
    IN <<"{">> \o Join(<<",", " ">>, [j \in 1..Len(keys) |-> member(keys[j])])
       \o <<"}">>

-----------------------------------------------------------------------------
(* ToolCallResult: an object with the fields tool_name, input, output,     *)
(* success, time_cost, token_cost, score, call_hash (created_at is the     *)
(* clock's value and is not told apart here).                              *)

ToolCallResult(tool_name, input, output, success, time_cost, token_cost, score, call_hash) ==
    [tool_name |-> tool_name, input |-> input, output |-> output,
     success |-> success, time_cost |-> time_cost, token_cost |-> token_cost,
     score |-> score, call_hash |-> call_hash]

\* ToolCallResult.generate_hash
generate_hash(self) ==
    LET input_str == IF self.input.t = "dict" THEN JsonDumpsSorted(self.input.v)
                     ELSE self.input.v
        combined == self.tool_name \o <<"|">> \o input_str \o <<"|">>
                    \o self.output
    IN Md5Hex(combined)

\* a plausible slip: the hash is recomputed on every call
ensure_hash_always(self) == [self EXCEPT !.call_hash = generate_hash(self)]

\* ToolCallResult.ensure_hash: the object after the call
ensure_hash(self) ==
    IF self.call_hash = << >>
    THEN [self EXCEPT !.call_hash = generate_hash(self)]
    ELSE self

\* tool_call.model_dump(): the dict form of the object
model_dump(self) ==
    << <<"tool_name", Str(self.tool_name)>>, <<"input", self.input>>,
       <<"output", Str(self.output)>>, <<"success", Bool(self.success)>>,
       <<"time_cost", Num(self.time_cost)>>,
       <<"token_cost", Num(self.token_cost)>>, <<"score", Num(self.score)>>,
       <<"call_hash", Str(self.call_hash)>>, <<"created_at", Datetime>> >>

-----------------------------------------------------------------------------
(* compute_content_hash.                                                   *)

\* c.lower() for one character
LowerChar(c) ==
    IF Ord(c) >= 65 /\ Ord(c) <= 90
    THEN (CHOOSE p \in CodeTable : p[2] = Ord(c) + 32)[1]
    ELSE c

\* s.lower()
Lower(s) == [j \in 1..Len(s) |-> LowerChar(s[j])]

\* the characters str.split() splits at
IsSpace(c) == c \in {" ", "\t", "\n", "\r", "\f"}

\* s.split(): the maximal runs of non-space characters. word is the run
\* being read.
RECURSIVE SplitFrom(_, _)
SplitFrom(s, word) ==
    IF s = << >> THEN (IF word = << >> THEN << >> ELSE <<word>>)
    ELSE IF IsSpace(Head(s))
    THEN (IF word = << >> THEN << >> ELSE <<word>>) \o SplitFrom(Tail(s), << >>)
    ELSE SplitFrom(Tail(s), Append(word, Head(s)))

Split(s) == SplitFrom(s, << >>)

\* a plausible slip: s.split(" "), which cuts at every single space and keeps
\* the empty words between two of them
RECURSIVE SplitAtEachSpace(_, _)
SplitAtEachSpace(s, word) ==
    IF s = << >> THEN <<word>>
    ELSE IF Head(s) = " " THEN <<word>> \o SplitAtEachSpace(Tail(s), << >>)
    ELSE SplitAtEachSpace(Tail(s), Append(word, Head(s)))

normalize_single_spaces(summary) == Join(<<" ">>, SplitAtEachSpace(Lower(summary), << >>))

\* normalized = " ".join(summary.lower().split())
normalize(summary) == Join(<<" ">>, Split(Lower(summary)))

\* hashlib.sha256(content.encode()).hexdigest()[:16], taken to be a function
\* of the content and no more
Sha256Hex16(content) == <<"sha256">> \o content

compute_content_hash(summary, memory_type) ==
    Sha256Hex16(memory_type \o <<":">> \o normalize(summary))

-----------------------------------------------------------------------------
(* MemoryItem: an object with the fields memory_type and extra (the other  *)
(* fields, id, timestamps, resource_id, summary, embedding, happened_at,   *)
(* are read by none of the operations below).                              *)

MemoryType == {"profile", "event", "knowledge", "behavior", "skill", "tool"}

\* the validation of MemoryItem's field memory_type, which is declared str
MemoryItemValid(memory_type) == memory_type.t = "str"

\* MemoryItem(resource_id=None, memory_type=memory_type, summary="..."):
\* extra takes its default, an empty dict of the item's own
MemoryItem(memory_type) == [memory_type |-> memory_type.v, extra |-> Dict(<< >>)]

\* get_tool_calls' default [], a list no object refers to yet
Fresh == 0

\* get_tool_calls(item): the address of the list it returns, or Fresh
get_tool_calls(item) ==
    LET extra == IF Truthy(item.extra) THEN item.extra.v ELSE << >>
    IN DictGet(extra, "tool_calls", Fresh)

\* the content of the list get_tool_calls(item) returns
Ledger(item, h) ==
    IF get_tool_calls(item) = Fresh THEN << >> ELSE h[get_tool_calls(item)]

\* set_tool_calls(item, tool_calls): the item after the call
set_tool_calls(item, tool_calls) ==
    LET extra == IF item.extra.t = "none" THEN Dict(<< >>) ELSE item.extra
    IN [item EXCEPT !.extra = Dict(DictSet(extra.v, "tool_calls", tool_calls))]

\* a plausible slip: no check of the memory type
add_tool_call_unguarded(item, tool_call, h) ==
    LET hashed == ensure_hash(tool_call)
        ref == get_tool_calls(item)
        a == IF ref = Fresh THEN Len(h) + 1 ELSE ref
        h2 == IF ref = Fresh THEN Append(h, <<model_dump(hashed)>>)
              ELSE [h EXCEPT ![a] = Append(@, model_dump(hashed))]
    IN [err |-> "none", item |-> set_tool_calls(item, a), tool_call |-> hashed,
        heap |-> h2]

\* a plausible slip: the new entry replaces the list instead of joining it
add_tool_call_replacing(item, tool_call, h) ==
    IF item.memory_type # "tool"
    THEN [err |-> "ValueError", item |-> item, tool_call |-> tool_call, heap |-> h]
    ELSE LET hashed == ensure_hash(tool_call)
             ref == get_tool_calls(item)
             a == IF ref = Fresh THEN Len(h) + 1 ELSE ref
             h2 == IF ref = Fresh THEN Append(h, <<model_dump(hashed)>>)
                   ELSE [h EXCEPT ![a] = <<model_dump(hashed)>>]
         IN [err |-> "none", item |-> set_tool_calls(item, a),
             tool_call |-> hashed, heap |-> h2]

\* add_tool_call(item, tool_call) with the lists in h: the error raised, and
\* the item, the ToolCallResult and the lists after the call
add_tool_call(item, tool_call, h) ==
    IF item.memory_type # "tool"
    THEN [err |-> "ValueError", item |-> item, tool_call |-> tool_call, heap |-> h]
    ELSE LET hashed == ensure_hash(tool_call)
             ref == get_tool_calls(item)
             a == IF ref = Fresh THEN Len(h) + 1 ELSE ref
             h2 == IF ref = Fresh THEN Append(h, <<model_dump(hashed)>>)
                   ELSE [h EXCEPT ![a] = Append(@, model_dump(hashed))]
         IN [err |-> "none", item |-> set_tool_calls(item, a),
             tool_call |-> hashed, heap |-> h2]

-----------------------------------------------------------------------------
(* The record models' fields (model_fields: the names a model declares or  *)
(* inherits), and the scope composer.                                      *)

BaseRecordFields ==
    { <<"i", "d">>,
      <<"c", "r", "e", "a", "t", "e", "d", "_", "a", "t">>,
      <<"u", "p", "d", "a", "t", "e", "d", "_", "a", "t">> }

ResourceFields ==
    BaseRecordFields \cup
    { <<"u", "r", "l">>,
      <<"m", "o", "d", "a", "l", "i", "t", "y">>,
      <<"l", "o", "c", "a", "l", "_", "p", "a", "t", "h">>,
      <<"c", "a", "p", "t", "i", "o", "n">>,
      <<"e", "m", "b", "e", "d", "d", "i", "n", "g">> }

MemoryCategoryFields ==
    BaseRecordFields \cup
    { <<"n", "a", "m", "e">>,
      <<"d", "e", "s", "c", "r", "i", "p", "t", "i", "o", "n">>,
      <<"e", "m", "b", "e", "d", "d", "i", "n", "g">>,
      <<"s", "u", "m", "m", "a", "r", "y">> }

MemoryItemFields ==
    BaseRecordFields \cup
    { <<"r", "e", "s", "o", "u", "r", "c", "e", "_", "i", "d">>,
      <<"m", "e", "m", "o", "r", "y", "_", "t", "y", "p", "e">>,
      <<"s", "u", "m", "m", "a", "r", "y">>,
      <<"e", "m", "b", "e", "d", "d", "i", "n", "g">>,
      <<"h", "a", "p", "p", "e", "n", "e", "d", "_", "a", "t">>,
      <<"e", "x", "t", "r", "a">> }

CategoryItemFields ==
    BaseRecordFields \cup
    { <<"i", "t", "e", "m", "_", "i", "d">>,
      <<"c", "a", "t", "e", "g", "o", "r", "y", "_", "i", "d">> }

\* the core models build_scoped_models composes with, in its order
CoreModels == <<ResourceFields, MemoryCategoryFields, MemoryItemFields, CategoryItemFields>>

ScopedModel(err, conflict, fields) == [err |-> err, conflict |-> conflict, fields |-> fields]

\* a plausible slip: the core model's fields win and nothing is raised
merge_scope_model_silent(user_fields, core_fields) ==
    ScopedModel("none", << >>, user_fields \cup core_fields)

\* a plausible slip: the error names the first colliding field only
merge_scope_model_first(user_fields, core_fields) ==
    LET overlap == user_fields \cap core_fields
    IN IF overlap # {} THEN ScopedModel("TypeError", <<Sorted(overlap)[1]>>, {})
       ELSE ScopedModel("none", << >>, user_fields \cup core_fields)

\* merge_scope_model(user_model, core_model, name_suffix=...) on the two
\* models' field names: the TypeError with the names its message lists, or
\* the fields of the new type, which inherits from both
merge_scope_model(user_fields, core_fields) ==
    LET overlap == user_fields \cap core_fields
    IN IF overlap # {} THEN ScopedModel("TypeError", Sorted(overlap), {})
       ELSE ScopedModel("none", << >>, user_fields \cup core_fields)

\* build_scoped_models(user_model): the four merges in order, the first
\* TypeError ending the call
RECURSIVE build_from(_, _)
build_from(user_fields, cores) ==
    IF cores = << >> THEN << >>
    ELSE LET m == merge_scope_model(user_fields, Head(cores))
         IN IF m.err # "none" THEN <<m>>
            ELSE <<m>> \o build_from(user_fields, Tail(cores))

build_scoped_models(user_fields) == build_from(user_fields, CoreModels)

-----------------------------------------------------------------------------
(* get_tool_statistics.  time_cost, avg_time_cost, score and avg_score are *)
(* in thousandths, success_rate in ten-thousandths, avg_token_cost in      *)
(* hundredths: the precision round() keeps for each.                       *)

RECURSIVE SumSeq(_)
SumSeq(xs) == IF xs = << >> THEN 0 ELSE Head(xs) + SumSeq(Tail(xs))

\* xs[start:]
PySliceFrom(xs, start) ==
    LET n == Len(xs)
        lo == IF start < 0 THEN (IF n + start < 0 THEN 0 ELSE n + start)
              ELSE (IF start > n THEN n ELSE start)
    IN SubSeq(xs, lo + 1, n)

\* recent_calls = tool_calls[-recent_n:]
recent_calls_of(tool_calls, recent_n) == PySliceFrom(tool_calls, 0 - recent_n)

\* int and float (and bool, which is an int) can be summed and compared with 0
IsNumber(x) == x.t \in {"num", "bool"}

\* [c.get(key, default) for c in recent_calls]
Column(recent_calls, key, default) ==
    [j \in 1..Len(recent_calls) |-> DictGet(recent_calls[j], key, default)]

\* the values round(num / den, digits) can take, num and den counted in units
\* of the last digit kept: the nearest unit, and either neighbour when the
\* exact quotient lies half way (which one depends on the quotient's binary
\* floating-point form)
RoundSet(num, den) ==
    LET q == num \div den
        r == num % den
    IN IF 2 * r < den THEN {q} ELSE IF 2 * r > den THEN {q + 1} ELSE {q, q + 1}

\* sum(c.get(key, 0.0) for c in recent_calls) / recent_count if recent_count > 0
\* else 0.0, then round(): the values it can take. scale is the number of
\* units of the rounded result in one unit of the field.
MeanRounded(recent_calls, key, scale) ==
    IF Len(recent_calls) > 0
    THEN RoundSet(scale * SumSeq([j \in 1..Len(recent_calls) |->
                      Column(recent_calls, key, Num(0))[j].v]), Len(recent_calls))
    ELSE {0}

\* successful / recent_count if recent_count > 0 else 0.0, then round(_, 4)
SuccessRateRounded(recent_calls) ==
    LET successful == Cardinality({j \in 1..Len(recent_calls) :
                          Truthy(DictGet(recent_calls[j], "success", Bool(TRUE)))})
    IN IF Len(recent_calls) > 0 THEN RoundSet(10000 * successful, Len(recent_calls))
       ELSE {0}

\* a plausible slip: the -1 of an unknown token_cost is averaged in
TokenMeanRoundedAll(recent_calls) ==
    IF Len(recent_calls) > 0
    THEN RoundSet(100 * SumSeq([j \in 1..Len(recent_calls) |->
                      DictGet(recent_calls[j], "token_cost", Num(-1)).v]),
                  Len(recent_calls))
    ELSE {0}

\* valid_token_calls and avg_token_cost, then round(_, 2)
TokenMeanRounded(recent_calls) ==
    LET valid_token_calls ==
            SelectSeq(recent_calls, LAMBDA c : DictGet(c, "token_cost", Num(-1)).v >= 0)
    IN IF Len(valid_token_calls) > 0
       THEN RoundSet(100 * SumSeq([j \in 1..Len(valid_token_calls) |->
                         DictGet(valid_token_calls[j], "token_cost", Num(0)).v]),
                     Len(valid_token_calls))
       ELSE {0}

\* what the arithmetic of get_tool_statistics raises on these entries: sum()
\* of a time_cost or score that is no number, or token_cost >= 0 for a
\* token_cost that is no number, is a TypeError
StatsRaises(recent_calls) ==
    \E j \in 1..Len(recent_calls) :
        \/ ~IsNumber(DictGet(recent_calls[j], "time_cost", Num(0)))
        \/ ~IsNumber(DictGet(recent_calls[j], "score", Num(0)))
        \/ ~IsNumber(DictGet(recent_calls[j], "token_cost", Num(-1)))

StatsRecord(err, total, recent, time, rate, score, token) ==
    [err |-> err, total_calls |-> total, recent_calls_analyzed |-> recent,
     avg_time_cost |-> time, success_rate |-> rate, avg_score |-> score,
     avg_token_cost |-> token]

\* get_tool_statistics(item, recent_n) with the lists in h: the set of what
\* it can return (one record, but for the two roundings of an exact half)
get_tool_statistics(item, recent_n, h) ==
    LET tool_calls == Ledger(item, h)
        recent_calls == recent_calls_of(tool_calls, recent_n)
    IN IF tool_calls = << >> THEN {StatsRecord("none", 0, 0, 0, 0, 0, 0)}
       ELSE IF StatsRaises(recent_calls)
       THEN {StatsRecord("TypeError", 0, 0, 0, 0, 0, 0)}
       ELSE {StatsRecord("none", Len(tool_calls), Len(recent_calls), time, rate,
                         score, token) :
                 time \in MeanRounded(recent_calls, "time_cost", 1),
                 rate \in SuccessRateRounded(recent_calls),
                 score \in MeanRounded(recent_calls, "score", 1),
                 token \in TokenMeanRounded(recent_calls)}

-----------------------------------------------------------------------------
(* The ledger machine: a caller constructs MemoryItems and ToolCallResults *)
(* and calls the accessors on them.                                        *)

\* what the caller passes as memory_type
MemoryTypeInputs == {Str("tool"), Str("profile"), Str("banana"), None}

\* what the caller passes as input=, and as call_hash=
InputInputs == {Str(<< >>)}
CallHashInputs == {<< >>, <<"h">>}

\* the lists the caller builds itself: [] and [{"tool_name": "a"}]
CallerLists == {<< >>, << << <<"tool_name", Str(<<"a">>)>> >> >>}

\* the ledger operations leave the other functions' arguments and results
\* alone; who holds which list is followed by the sharing machine only
LedgerFrame == UNCHANGED <<held, stats, hashVars, contentVars, scopeVars>>

ConstructItem(memory_type) ==
    /\ Len(items) < MaxItems
    /\ IF MemoryItemValid(memory_type)
       THEN /\ items' = Append(items, MemoryItem(memory_type))
            /\ log' = Append(log, << >>)
            /\ outcome' = "none"
       ELSE /\ UNCHANGED <<items, log>>
            /\ outcome' = "ValidationError"
    /\ UNCHANGED <<heap, calls, rebound>>
    /\ LedgerFrame

\* tool_call = ToolCallResult(tool_name="a", input=input, call_hash=call_hash):
\* the caller's one ToolCallResult, the other fields at their defaults
ConstructResult(input, call_hash) ==
    /\ calls' = <<ToolCallResult(<<"a">>, input, << >>, TRUE, 0, -1, 0, call_hash)>>
    /\ outcome' = "none"
    /\ UNCHANGED <<items, heap, log, rebound>>
    /\ LedgerFrame

EnsureHash(k) ==
    /\ k \in 1..Len(calls)
    /\ calls' = [calls EXCEPT ![k] = ensure_hash(@)]
    /\ outcome' = "none"
    /\ UNCHANGED <<items, heap, log, rebound>>
    /\ LedgerFrame

\* tool_calls = get_tool_calls(item): a read. The caller gets the list the
\* item holds, or a new empty list that no item holds.
GetToolCalls(i) ==
    /\ i \in 1..Len(items)
    /\ outcome' = "none"
    /\ UNCHANGED <<items, heap, calls, log, rebound>>
    /\ LedgerFrame

\* set_tool_calls(item, tool_calls) with a list the caller has just built
SetToolCallsNew(i, content) ==
    /\ i \in 1..Len(items)
    /\ Len(heap) < MaxLists
    /\ heap' = Append(heap, content)
    /\ items' = [items EXCEPT ![i] = set_tool_calls(@, Len(heap) + 1)]
    /\ rebound' = TRUE
    /\ log' = [j \in 1..Len(items) |-> << >>]
    /\ outcome' = "none"
    /\ UNCHANGED calls
    /\ LedgerFrame

\* set_tool_calls(item, tool_calls) with a list the caller holds from before:
\* one it passed to set_tool_calls or one get_tool_calls returned
SetToolCalls(i, a) ==
    /\ i \in 1..Len(items)
    /\ a \in 1..Len(heap)
    /\ items' = [items EXCEPT ![i] = set_tool_calls(@, a)]
    /\ rebound' = TRUE
    /\ log' = [j \in 1..Len(items) |-> << >>]
    /\ outcome' = "none"
    /\ UNCHANGED <<heap, calls>>
    /\ LedgerFrame

AddToolCall(i, k) ==
    /\ i \in 1..Len(items)
    /\ k \in 1..Len(calls)
    /\ LET r == add_tool_call(items[i], calls[k], heap)
       IN /\ Len(r.heap) <= MaxLists
          /\ \A a \in 1..Len(r.heap) : Len(r.heap[a]) <= MaxCalls
          /\ items' = [items EXCEPT ![i] = r.item]
          /\ calls' = [calls EXCEPT ![k] = r.tool_call]
          /\ heap' = r.heap
          /\ log' = IF r.err = "none" /\ ~rebound
                    THEN [log EXCEPT ![i] = Append(@, model_dump(r.tool_call))]
                    ELSE log
          /\ outcome' = r.err
    /\ UNCHANGED rebound
    /\ LedgerFrame

GetToolStatistics(i, recent_n) ==
    /\ i \in 1..Len(items)
    /\ \E ret \in get_tool_statistics(items[i], recent_n, heap) :
           /\ stats' = <<[item |-> i, recent_n |-> recent_n, ret |-> ret]>>
           /\ outcome' = ret.err
    /\ UNCHANGED <<ledgerVars, hashVars, contentVars, scopeVars>>

Init ==
    /\ items = << >>
    /\ heap = << >>
    /\ calls = << >>
    /\ outcome = "none"
    /\ log = << >>
    /\ rebound = FALSE
    /\ held = << >>
    /\ stats = << >>
    /\ hashes = << >>
    /\ content_in = << >>
    /\ content_out = << >>
    /\ user_model = {}
    /\ scoped = << >>

Next ==
    \/ \E memory_type \in MemoryTypeInputs : ConstructItem(memory_type)
    \/ \E input \in InputInputs, call_hash \in CallHashInputs :
           ConstructResult(input, call_hash)
    \/ EnsureHash(1)
    \/ \E i \in 1..MaxItems : GetToolCalls(i)
    \/ \E i \in 1..MaxItems, content \in CallerLists : SetToolCallsNew(i, content)
    \/ \E i \in 1..MaxItems, a \in 1..MaxLists : SetToolCalls(i, a)
    \/ \E i \in 1..MaxItems : AddToolCall(i, 1)

Spec == Init /\ [][Next]_vars

-----------------------------------------------------------------------------
(* Claims about the ledger machine.                                        *)

\* the step was add_tool_call on item i
AddStep(i) == \E k \in 1..Len(calls) : AddToolCall(i, k)

CallHashOf(entry) == DictGet(entry, "call_hash", Str(<< >>)).v

\* C1: add_tool_call on a MemoryItem whose memory_type is not "tool" ends in
\* an error and appends nothing: the item, its extra and every list are the
\* same after the failed call as before it, whatever operations came before.
C1_WrongTypeRejected ==
    [][\A i \in 1..Len(items) :
          (AddStep(i) /\ items[i].memory_type # "tool")
              => /\ outcome' = "ValueError"
                 /\ items' = items
                 /\ heap' = heap]_vars

\* C1's case: add_tool_call has just failed on a non-tool item that already
\* has a tool_calls sequence with an entry in it.
C1_Witness ==
    \E i \in 1..Len(items) :
        /\ outcome = "ValueError"
        /\ items[i].memory_type # "tool"
        /\ Len(Ledger(items[i], heap)) > 0

\* C2: a successful add_tool_call on a tool-type item appends exactly one
\* entry, with a non-empty call_hash, at the end of the item's tool_calls and
\* leaves the entries before it as they were; and as long as the caller has
\* only added (no set_tool_calls), get_tool_calls returns exactly the entries
\* added to the item, in call order.
C2_AppendsExactlyOne ==
    /\ [][\A i \in 1..Len(items) :
             (AddStep(i) /\ outcome' = "none")
                 => LET before == Ledger(items[i], heap)
                        after == Ledger(items'[i], heap')
                    IN /\ Len(after) = Len(before) + 1
                       /\ SubSeq(after, 1, Len(before)) = before
                       /\ CallHashOf(after[Len(after)]) # << >>]_vars
    /\ [](~rebound => \A i \in 1..Len(items) : Ledger(items[i], heap) = log[i])

\* C2's case: two successful add_tool_call calls on an item that started with
\* no tool_calls, and nothing but adds.
C2_Witness ==
    \E i \in 1..Len(items) :
        /\ ~rebound
        /\ items[i].memory_type = "tool"
        /\ Len(log[i]) = 2
        /\ Len(Ledger(items[i], heap)) = 2

\* C5 as claimed: every MemoryItem that exists has its memory_type in the
\* closed set {profile, event, knowledge, behavior, skill, tool}.
C5_ClosedMemoryType ==
    \A i \in 1..Len(items) : items[i].memory_type \in MemoryType

\* the step was ensure_hash on ToolCallResult k
EnsureStep(k) == EnsureHash(k)

\* the caller has put a new ToolCallResult in the place of the old one
NewResultStep ==
    \E input \in InputInputs, call_hash \in CallHashInputs :
        ConstructResult(input, call_hash)

\* C10: ensure_hash sets an empty call_hash to generate_hash() and changes no
\* other field; a call_hash that is set is never changed again, by a further
\* ensure_hash or by any other operation on the object.
C10_EnsureHashIdempotent ==
    [][NewResultStep \/
       \A k \in 1..Len(calls) :
          /\ calls[k].call_hash # << >> => calls'[k] = calls[k]
          /\ (EnsureStep(k) /\ calls[k].call_hash = << >>)
                 => /\ calls'[k].call_hash = generate_hash(calls[k])
                    /\ calls'[k].call_hash # << >>
                    /\ [calls'[k] EXCEPT !.call_hash = << >>] = calls[k]]_vars

\* C10's case: a ToolCallResult constructed without a call_hash on which
\* ensure_hash has acted (by itself or from add_tool_call): its call_hash is
\* the generated one.
C10_Witness ==
    \E k \in 1..Len(calls) : calls[k].call_hash = generate_hash(calls[k])

-----------------------------------------------------------------------------
(* The statistics of a tool memory as it was loaded: an item whose         *)
(* tool_calls hold up to MaxLedger entries, each with time_cost, success,  *)
(* score and token_cost present and well-formed, absent, or malformed.     *)

MaxLedger == 3
MaxRecent == 4

Absent == [t |-> "absent", v |-> 0]

\* {"time_cost": ..., "success": ..., "score": ..., "token_cost": ...} without
\* the keys that are Absent
StatsEntry(time_cost, success, score, token_cost) ==
    SelectSeq(<< <<"time_cost", time_cost>>, <<"success", success>>,
                 <<"score", score>>, <<"token_cost", token_cost>> >>,
              LAMBDA kv : kv[2] # Absent)

\* one well-formed entry, and the entries that differ from it in one field
StatsEntries ==
    {StatsEntry(t, Bool(TRUE), Num(500), Num(10)) :
         t \in {Num(100), Num(1000), Absent, None}}
    \cup {StatsEntry(Num(100), s, Num(500), Num(10)) : s \in {Bool(FALSE), Absent, None}}
    \cup {StatsEntry(Num(100), Bool(TRUE), sc, Num(10)) : sc \in {Absent, Str(<<"x">>)}}
    \cup {StatsEntry(Num(100), Bool(TRUE), Num(500), tk) :
              tk \in {Num(15), Num(-1), Absent, None}}

RecentInputs == (0 - 1)..MaxRecent

InitStats ==
    /\ \/ /\ items = <<[memory_type |-> "tool", extra |-> Dict(<< >>)]>>
          /\ heap = << >>
       \/ /\ items = <<[memory_type |-> "tool",
                        extra |-> Dict(<< <<"tool_calls", 1>> >>)]>>
          /\ \E n \in 0..MaxLedger : \E ledger \in [1..n -> StatsEntries] :
                 heap = <<ledger>>
    /\ calls = << >>
    /\ outcome = "none"
    /\ log = << << >> >>
    /\ rebound = TRUE
    /\ held = << >>
    /\ stats = << >>
    /\ hashes = << >>
    /\ content_in = << >>
    /\ content_out = << >>
    /\ user_model = {}
    /\ scoped = << >>

\* one call on each loaded item: get_tool_statistics changes nothing, and a
\* second call has the same ledger to read
NextStats ==
    /\ stats = << >>
    /\ \E recent_n \in RecentInputs : GetToolStatistics(1, recent_n)

SpecStats == InitStats /\ [][NextStats]_vars

-----------------------------------------------------------------------------
(* Claims about get_tool_statistics.                                       *)

Min(a, b) == IF a < b THEN a ELSE b

\* the last m entries of a ledger
LastEntries(ledger, m) == SubSeq(ledger, Len(ledger) - m + 1, Len(ledger))

\* the sum of a field over the entries that have it as a number >= least
RECURSIVE FieldTotal(_, _, _)
FieldTotal(entries, key, least) ==
    IF entries = << >> THEN 0
    ELSE LET x == DictGet(Head(entries), key, Absent)
         IN (IF IsNumber(x) /\ x.v >= least THEN x.v ELSE 0)
            + FieldTotal(Tail(entries), key, least)

\* how many entries have the field as a number >= least
RECURSIVE FieldCount(_, _, _)
FieldCount(entries, key, least) ==
    IF entries = << >> THEN 0
    ELSE LET x == DictGet(Head(entries), key, Absent)
         IN (IF IsNumber(x) /\ x.v >= least THEN 1 ELSE 0)
            + FieldCount(Tail(entries), key, least)

\* ret is what statistics over exactly these entries look like: the count,
\* and the mean time cost within half a thousandth
StatsAreOver(ret, entries) ==
    /\ ret.recent_calls_analyzed = Len(entries)
    /\ Len(entries) > 0 =>
           LET total == FieldTotal(entries, "time_cost", 0)
           IN /\ 2 * Len(entries) * ret.avg_time_cost <= 2 * total + Len(entries)
              /\ 2 * Len(entries) * ret.avg_time_cost >= 2 * total - Len(entries)

\* C3 as claimed: for a non-empty ledger of length L and every recent_n >= 0,
\* recent_calls_analyzed = min(recent_n, L), the averages are over exactly the
\* last min(recent_n, L) entries, and total_calls = L.
C3_WindowIsLastMin ==
    \A j \in 1..Len(stats) :
        LET ledger == Ledger(items[stats[j].item], heap)
            ret == stats[j].ret
        IN (ledger # << >> /\ stats[j].recent_n >= 0 /\ ret.err = "none")
               => /\ ret.total_calls = Len(ledger)
                  /\ StatsAreOver(ret, LastEntries(ledger, Min(stats[j].recent_n, Len(ledger))))

\* what does hold of the window: the same from recent_n = 1 on
C3_WindowIsLastMinFromOne ==
    \A j \in 1..Len(stats) :
        LET ledger == Ledger(items[stats[j].item], heap)
            ret == stats[j].ret
        IN (ledger # << >> /\ stats[j].recent_n >= 1 /\ ret.err = "none")
               => /\ ret.total_calls = Len(ledger)
                  /\ StatsAreOver(ret, LastEntries(ledger, Min(stats[j].recent_n, Len(ledger))))

\* C4 as claimed: get_tool_statistics never ends in an error, whatever
\* time_cost, success, score or token_cost the entries lack or hold.
C4_NeverRaises ==
    \A j \in 1..Len(stats) : stats[j].ret.err = "none"

\* what does hold: no error when every field that is present is well-formed
\* (only absent fields take their defaults)
C4_NoErrorWhenWellFormed ==
    \A j \in 1..Len(stats) :
        LET ledger == Ledger(items[stats[j].item], heap)
        IN (\A e \in 1..Len(ledger), key \in {"time_cost", "score", "token_cost"} :
                DictGet(ledger[e], key, Num(0)).t = "num")
               => stats[j].ret.err = "none"

\* C6: avg_token_cost is the mean (rounded to hundredths) of token_cost over
\* only the window's entries with token_cost >= 0, the -1 and the absent ones
\* left out of the sum and of the divisor; it is 0 when there is no such
\* entry, and never negative. The window is the recent_calls_analyzed last
\* entries.
C6_TokenMeanSkipsUnknown ==
    \A j \in 1..Len(stats) :
        LET ledger == Ledger(items[stats[j].item], heap)
            ret == stats[j].ret
            window == LastEntries(ledger, ret.recent_calls_analyzed)
            total == FieldTotal(window, "token_cost", 0)
            known == FieldCount(window, "token_cost", 0)
        IN ret.err = "none"
               => /\ ret.avg_token_cost >= 0
                  /\ known = 0 => ret.avg_token_cost = 0
                  /\ known > 0 =>
                         /\ 2 * known * ret.avg_token_cost <= 200 * total + known
                         /\ 2 * known * ret.avg_token_cost >= 200 * total - known

\* C6's case: statistics over a window that holds token costs 10 and 15 and a
\* -1, whose mean is 12.5.
C6_Witness ==
    \E j \in 1..Len(stats) :
        LET ledger == Ledger(items[stats[j].item], heap)
            window == LastEntries(ledger, stats[j].ret.recent_calls_analyzed)
        IN /\ stats[j].ret.err = "none"
           /\ stats[j].ret.avg_token_cost = 1250
           /\ \E e \in 1..Len(window) : DictGet(window[e], "token_cost", Absent) = Num(-1)
           /\ \E e \in 1..Len(window) : DictGet(window[e], "token_cost", Absent) = Num(15)

-----------------------------------------------------------------------------
(* generate_hash as a function: two ToolCallResults built from short       *)
(* strings over {a, |} and from small mappings, and their hashes.          *)

MaxStr == 1

\* the str of at most n characters over an alphabet
Strs(alphabet, n) == UNION {[1..m -> alphabet] : m \in 0..n}

HashStrs == Strs({"a", "|"}, MaxStr)

\* {"a": 1, "b": 2} written in its two key orders, and {"a": 1}
HashDicts ==
    { Dict(<< <<<<"a">>, Num(1)>>, <<<<"b">>, Num(2)>> >>),
      Dict(<< <<<<"b">>, Num(2)>>, <<<<"a">>, Num(1)>> >>),
      Dict(<< <<<<"a">>, Num(1)>> >>) }

HashInputs ==
    {ToolCallResult(tool_name, input, output, TRUE, 0, -1, 0, << >>) :
         tool_name \in HashStrs,
         input \in {Str(x) : x \in HashStrs} \cup HashDicts,
         output \in HashStrs}

GenerateHash(k) ==
    /\ k \in 1..Len(calls)
    /\ hashes' = [hashes EXCEPT ![k] = generate_hash(calls[k])]
    /\ outcome' = "none"
    /\ UNCHANGED <<ledgerVars, stats, contentVars, scopeVars>>

InitHash ==
    /\ items = << >>
    /\ heap = << >>
    /\ \E x \in HashInputs, y \in HashInputs : calls = <<x, y>>
    /\ outcome = "none"
    /\ log = << >>
    /\ rebound = FALSE
    /\ held = << >>
    /\ stats = << >>
    /\ hashes = << << >>, << >> >>
    /\ content_in = << >>
    /\ content_out = << >>
    /\ user_model = {}
    /\ scoped = << >>

NextHash == \E k \in 1..2 : GenerateHash(k)

SpecHash == InitHash /\ [][NextHash]_vars

\* two inputs are the same str, or the same mapping whatever the key order
SameInput(x, y) ==
    /\ x.t = y.t
    /\ IF x.t = "dict"
       THEN {x.v[j] : j \in 1..Len(x.v)} = {y.v[j] : j \in 1..Len(y.v)}
       ELSE x.v = y.v

BothHashed == hashes[1] # << >> /\ hashes[2] # << >>

\* C8 as claimed: with an injective digest, two tool-call results that differ
\* in tool_name, in input or in output have different hashes.
C8_HashSensitive ==
    (Len(hashes) = 2 /\ BothHashed)
        => ((\/ calls[1].tool_name # calls[2].tool_name
             \/ ~SameInput(calls[1].input, calls[2].input)
             \/ calls[1].output # calls[2].output)
                => hashes[1] # hashes[2])

\* what does hold: the hashes differ when the two results differ in the
\* tool_name alone or in the output alone, and they agree when the results
\* are the same up to the key order of a mapping input
C8_OneFieldSensitive ==
    (Len(hashes) = 2 /\ BothHashed)
        => /\ (/\ calls[1].tool_name # calls[2].tool_name
               /\ calls[1].input = calls[2].input
               /\ calls[1].output = calls[2].output) => hashes[1] # hashes[2]
           /\ (/\ calls[1].tool_name = calls[2].tool_name
               /\ calls[1].input = calls[2].input
               /\ calls[1].output # calls[2].output) => hashes[1] # hashes[2]
           /\ (/\ calls[1].tool_name = calls[2].tool_name
               /\ SameInput(calls[1].input, calls[2].input)
               /\ calls[1].output = calls[2].output) => hashes[1] = hashes[2]

-----------------------------------------------------------------------------
(* compute_content_hash as a function: two summaries over {a, A, space,    *)
(* tab}, one memory type, and their hashes.                                *)

MaxSummary == 3

Summaries == Strs({"a", "A", " ", "\t"}, MaxSummary)

ContentTypes == {<<"t", "o", "o", "l">>, <<"p", "r", "o", "f", "i", "l", "e">>}

ComputeContentHash(k) ==
    /\ k \in 1..Len(content_in)
    /\ content_out' = [content_out EXCEPT
                          ![k] = compute_content_hash(content_in[k][1], content_in[k][2])]
    /\ outcome' = "none"
    /\ UNCHANGED <<ledgerVars, stats, hashVars, content_in, scopeVars>>

InitContent ==
    /\ items = << >>
    /\ heap = << >>
    /\ calls = << >>
    /\ outcome = "none"
    /\ log = << >>
    /\ rebound = FALSE
    /\ held = << >>
    /\ stats = << >>
    /\ hashes = << >>
    /\ \E s1 \in Summaries, s2 \in Summaries, memory_type \in ContentTypes :
           content_in = << <<s1, memory_type>>, <<s2, memory_type>> >>
    /\ content_out = << << >>, << >> >>
    /\ user_model = {}
    /\ scoped = << >>

\* the first summary is hashed, then the second
NextContent ==
    \E k \in 1..2 : (\A j \in 1..(k - 1) : content_out[j] # << >>)
                    /\ content_out[k] = << >>
                    /\ ComputeContentHash(k)

SpecContent == InitContent /\ [][NextContent]_vars

\* the summary as the claim normalizes it: lower-cased, trimmed, and every
\* whitespace run in it replaced by one space
RECURSIVE DropLeadingSpace(_)
DropLeadingSpace(s) ==
    IF s # << >> /\ IsSpace(Head(s)) THEN DropLeadingSpace(Tail(s)) ELSE s

RECURSIVE DropTrailingSpace(_)
DropTrailingSpace(s) ==
    IF s # << >> /\ IsSpace(s[Len(s)]) THEN DropTrailingSpace(SubSeq(s, 1, Len(s) - 1))
    ELSE s

RECURSIVE CollapseRuns(_)
CollapseRuns(s) ==
    IF s = << >> THEN << >>
    ELSE IF IsSpace(Head(s)) THEN <<" ">> \o CollapseRuns(DropLeadingSpace(s))
    ELSE <<Head(s)>> \o CollapseRuns(Tail(s))

LowerTrimCollapse(s) ==
    CollapseRuns(DropTrailingSpace(DropLeadingSpace(
        [j \in 1..Len(s) |-> IF s[j] = "A" THEN "a" ELSE s[j]])))

\* C9: two summaries that are equal once lower-cased, trimmed and with every
\* whitespace run collapsed to one space get the same content hash when the
\* memory_type is the same.
C9_NormalizedSummariesCollide ==
    (Len(content_out) = 2 /\ content_out[1] # << >> /\ content_out[2] # << >>)
        => ((/\ content_in[1][2] = content_in[2][2]
             /\ LowerTrimCollapse(content_in[1][1]) = LowerTrimCollapse(content_in[2][1]))
                => content_out[1] = content_out[2])

\* C9's case: two different summaries, "a<tab>A" and "A a", that normalize
\* to the same text "a a", both hashed under the same memory_type.
C9_Witness ==
    /\ Len(content_out) = 2 /\ content_out[1] # << >> /\ content_out[2] # << >>
    /\ content_in[1][1] = <<"a", "\t", "A">>
    /\ content_in[2][1] = <<"A", " ", "a">>
    /\ content_out[1] = content_out[2]

-----------------------------------------------------------------------------
(* The scope composer at start-up: an application's scope model with up to *)
(* MaxScopeFields fields, merged with one core model or with all four.     *)

MaxScopeFields == 3

\* the names an application may give its scope fields: two of its own, and
\* some that core models use too
ScopeFieldNames ==
    { <<"t", "e", "n", "a", "n", "t", "_", "i", "d">>,
      <<"u", "s", "e", "r", "_", "i", "d">>,
      <<"i", "d">>,
      <<"s", "u", "m", "m", "a", "r", "y">>,
      <<"e", "m", "b", "e", "d", "d", "i", "n", "g">>,
      <<"i", "t", "e", "m", "_", "i", "d">>,
      <<"c", "r", "e", "a", "t", "e", "d", "_", "a", "t">> }

MergeScopeModel(c) ==
    /\ c \in 1..Len(CoreModels)
    /\ LET m == merge_scope_model(user_model, CoreModels[c])
       IN /\ scoped' = <<[op |-> "merge_scope_model", core |-> c, ret |-> <<m>>]>>
          /\ outcome' = m.err
    /\ UNCHANGED <<ledgerVars, stats, hashVars, contentVars, user_model>>

BuildScopedModels ==
    /\ LET ms == build_scoped_models(user_model)
       IN /\ scoped' = <<[op |-> "build_scoped_models", core |-> 0, ret |-> ms]>>
          /\ outcome' = ms[Len(ms)].err
    /\ UNCHANGED <<ledgerVars, stats, hashVars, contentVars, user_model>>

InitScope ==
    /\ items = << >>
    /\ heap = << >>
    /\ calls = << >>
    /\ outcome = "none"
    /\ log = << >>
    /\ rebound = FALSE
    /\ held = << >>
    /\ stats = << >>
    /\ hashes = << >>
    /\ content_in = << >>
    /\ content_out = << >>
    /\ user_model \in {u \in SUBSET ScopeFieldNames : Cardinality(u) <= MaxScopeFields}
    /\ scoped = << >>

NextScope ==
    \/ \E c \in 1..4 : MergeScopeModel(c)
    \/ BuildScopedModels

SpecScope == InitScope /\ [][NextScope]_vars

\* a message lists exactly the names of a set, each once, in ascending order
ListsSorted(conflict, names) ==
    /\ {conflict[j] : j \in 1..Len(conflict)} = names
    /\ Len(conflict) = Cardinality(names)
    /\ \A j \in 1..(Len(conflict) - 1) : StrLess(conflict[j], conflict[j + 1])

\* one merge did what the overlap of the two field sets calls for
MergeIsRight(m, user_fields, core_fields) ==
    /\ (m.err # "none") <=> (user_fields \cap core_fields # {})
    /\ m.err # "none" => /\ ListsSorted(m.conflict, user_fields \cap core_fields)
                         /\ m.fields = {}
    /\ m.err = "none" => m.fields = user_fields \cup core_fields

\* C7: merge_scope_model fails exactly when the field names of the scope
\* model and of the core model intersect, and the error then names every
\* colliding field in sorted order; when they are disjoint it succeeds and
\* the composite's fields are the union of both. No collision passes
\* silently, in one merge or in the four of build_scoped_models.
C7_ConflictExactlyOnOverlap ==
    \A j \in 1..Len(scoped) :
        /\ scoped[j].op = "merge_scope_model"
               => MergeIsRight(scoped[j].ret[1], user_model, CoreModels[scoped[j].core])
        /\ scoped[j].op = "build_scoped_models"
               => LET ms == scoped[j].ret
                  IN /\ \A c \in 1..Len(ms) : MergeIsRight(ms[c], user_model, CoreModels[c])
                     /\ Len(ms) = Len(CoreModels) \/ ms[Len(ms)].err # "none"
                     /\ \A c \in 1..(Len(ms) - 1) : ms[c].err = "none"

\* C7's case: a scope model with two fields that collide with Resource's
\* (id and created_at) and one that does not was merged with Resource, and
\* the error names created_at, then id.
C7_Witness ==
    \E j \in 1..Len(scoped) :
        /\ scoped[j].op = "merge_scope_model"
        /\ scoped[j].core = 1
        /\ Cardinality(user_model \cap ResourceFields) = 2
        /\ Cardinality(user_model \ ResourceFields) = 1
        /\ scoped[j].ret[1].err = "TypeError"
        /\ scoped[j].ret[1].conflict = <<<<"c", "r", "e", "a", "t", "e", "d", "_", "a", "t">>, <<"i", "d">>>>

-----------------------------------------------------------------------------
(* The sharing machine: a caller with two tool memories A and B and one    *)
(* ToolCallResult reads, replaces and extends their ledgers. A list is an  *)
(* object: set_tool_calls stores the list it is given, get_tool_calls      *)
(* returns the list the item holds, and add_tool_call appends in place.    *)

MaxShareLists == 2
MaxShareCalls == 2

\* tool_calls = get_tool_calls(item): the caller now holds the item's list,
\* or, when the item has none, a new empty list that no item holds
ShareGetToolCalls(i) ==
    /\ i \in 1..Len(items)
    /\ LET ref == get_tool_calls(items[i])
       IN IF ref = Fresh
          THEN /\ Len(heap) < MaxShareLists
               /\ heap' = Append(heap, << >>)
               /\ held' = Append(held, {i})
          ELSE /\ heap' = heap
               /\ held' = [held EXCEPT ![ref] = @ \cup {i}]
    /\ outcome' = "none"
    /\ UNCHANGED <<items, calls, log, rebound>>
    /\ UNCHANGED <<stats, hashVars, contentVars, scopeVars>>

\* set_tool_calls(item, []) with a list the caller has just built
ShareSetToolCallsNew(i) ==
    /\ i \in 1..Len(items)
    /\ Len(heap) < MaxShareLists
    /\ heap' = Append(heap, << >>)
    /\ held' = Append(held, {i})
    /\ items' = [items EXCEPT ![i] = set_tool_calls(@, Len(heap) + 1)]
    /\ outcome' = "none"
    /\ UNCHANGED <<calls, log, rebound>>
    /\ UNCHANGED <<stats, hashVars, contentVars, scopeVars>>

\* set_tool_calls(item, tool_calls) with a list the caller holds from before
ShareSetToolCalls(i, a) ==
    /\ i \in 1..Len(items)
    /\ a \in 1..Len(heap)
    /\ held[a] # {}
    /\ items' = [items EXCEPT ![i] = set_tool_calls(@, a)]
    /\ held' = [held EXCEPT ![a] = @ \cup {i}]
    /\ outcome' = "none"
    /\ UNCHANGED <<heap, calls, log, rebound>>
    /\ UNCHANGED <<stats, hashVars, contentVars, scopeVars>>

\* add_tool_call(item, tool_call); a list that add_tool_call made itself is
\* one the caller does not hold
ShareAddToolCall(i) ==
    /\ i \in 1..Len(items)
    /\ LET r == add_tool_call(items[i], calls[1], heap)
       IN /\ Len(r.heap) <= MaxShareLists
          /\ \A a \in 1..Len(r.heap) : Len(r.heap[a]) <= MaxShareCalls
          /\ items' = [items EXCEPT ![i] = r.item]
          /\ calls' = [calls EXCEPT ![1] = r.tool_call]
          /\ heap' = r.heap
          /\ held' = IF Len(r.heap) > Len(heap) THEN Append(held, {}) ELSE held
          /\ outcome' = r.err
    /\ UNCHANGED <<log, rebound>>
    /\ UNCHANGED <<stats, hashVars, contentVars, scopeVars>>

\* A = MemoryItem(memory_type="tool", ...), B likewise, and
\* tool_call = ToolCallResult(tool_name="a")
InitShare ==
    /\ items = <<MemoryItem(Str("tool")), MemoryItem(Str("tool"))>>
    /\ heap = << >>
    /\ calls = <<ToolCallResult(<<"a">>, Str(<< >>), << >>, TRUE, 0, -1, 0, << >>)>>
    /\ outcome = "none"
    /\ log = << << >>, << >> >>
    /\ rebound = TRUE
    /\ held = << >>
    /\ stats = << >>
    /\ hashes = << >>
    /\ content_in = << >>
    /\ content_out = << >>
    /\ user_model = {}
    /\ scoped = << >>

NextShare ==
    \/ \E i \in 1..Len(items) : ShareGetToolCalls(i)
    \/ \E i \in 1..Len(items) : ShareSetToolCallsNew(i)
    \/ \E i \in 1..Len(items), a \in 1..MaxShareLists : ShareSetToolCalls(i, a)
    \/ \E i \in 1..Len(items) : ShareAddToolCall(i)

SpecShare == InitShare /\ [][NextShare]_vars

\* C11 as claimed: add_tool_call(A, r) changes the ledger of A alone. The
\* ledger of every other item B, and every list the caller passed to
\* set_tool_calls or got from get_tool_calls for another item, has the same
\* length and entries after the call as before it.
C11_AddChangesOneLedger ==
    [][\A i \in 1..Len(items) :
          ShareAddToolCall(i)
              => /\ \A j \in (1..Len(items)) \ {i} :
                        Ledger(items'[j], heap') = Ledger(items[j], heap)
                 /\ \A a \in 1..Len(heap) :
                        held[a] \ {i} # {} => heap'[a] = heap[a]]_vars

\* What add_tool_call(A, r) does keep to: it changes one list object, the one
\* A holds, and no item but A; the ledger of an item that does not hold A's
\* list is the same after the call as before it.
C11_AddChangesOneList ==
    [][\A i \in 1..Len(items) :
          ShareAddToolCall(i)
              => /\ \A j \in (1..Len(items)) \ {i} : items'[j] = items[j]
                 /\ \A a \in 1..Len(heap) :
                        a # get_tool_calls(items[i]) => heap'[a] = heap[a]
                 /\ \A j \in (1..Len(items)) \ {i} :
                        get_tool_calls(items[j]) # get_tool_calls(items[i])
                            => Ledger(items'[j], heap') = Ledger(items[j], heap)]_vars

\* Two items hold one list, and add_tool_call on either has put an entry in it.
C11_SharedLedgerGrew ==
    /\ get_tool_calls(items[1]) # Fresh
    /\ get_tool_calls(items[1]) = get_tool_calls(items[2])
    /\ Len(Ledger(items[2], heap)) > 0

=============================================================================
